---- MODULE Spec2Model ----
(***************************************************************************)
(* Registration submission and ticket-inventory reservation of the event   *)
(* registration application: the Firestore services of                      *)
(* lib/services/registrationService.ts and the useRegistration hook that   *)
(* drives them.  Several browser clients run the hook against one store.   *)
(* Every await of the code is a step boundary: what runs between two       *)
(* awaits is one atomic action, and a store call that is awaited either    *)
(* resolves or rejects.                                                    *)
(***************************************************************************)
EXTENDS Integers, Sequences, FiniteSets, TLC

(***************************************************************************)
(* Bounds of the model.                                                    *)
(***************************************************************************)
\* maxQuantity given to every ticket type of the event
MaxQty == 2
\* submissions started by all clients together
MaxSubmits == 2

\* number of equal steps Math.random() is sampled in: a sample n stands for the
\* value n / RandomResolution of [0, 1)
RandomResolution == 72
\* registrations the store holds when the status and summary operations start
MaxRegs == 2

\* length of a confirmation code: the bound of the generator's for loop
CodeLength == 8

\* the browser clients that hold a useRegistration hook for the event
Clients == {"c1", "c2"}

\* the ticket types stored for the event
TicketIds == {"t1", "t2"}

\* the event the clients' hooks are opened for, and another event of the store
EventId == "event-1"
EventIds == {EventId, "event-2"}

(***************************************************************************)
(* Data of the event.                                                      *)
(***************************************************************************)
\* TicketType.maxQuantity
maxQuantity == [t \in TicketIds |-> MaxQty]

\* TicketType.price: t1 is a free ticket, t2 is paid
price == [t \in TicketIds |-> IF t = "t1" THEN 0 ELSE 5]

\* TicketType.name
name == [t \in TicketIds |-> IF t = "t1" THEN "Free Pass" ELSE "General Admission"]

\* values a form control can hold
NoValue == [t |-> "undefined", s |-> "", b |-> FALSE]
Str(s) == [t |-> "string", s |-> s, b |-> FALSE]
Bool(b) == [t |-> "boolean", s |-> "", b |-> b]

\* the custom fields an event form may define (CustomField)
DietField == [name |-> "diet", type |-> "select", required |-> TRUE,
              options |-> {"veg", "meat"}, minLength |-> 0, maxLength |-> 0]
NickField == [name |-> "nick", type |-> "text", required |-> FALSE,
              options |-> {}, minLength |-> 2, maxLength |-> 3]
WaiverField == [name |-> "waiver", type |-> "checkbox", required |-> TRUE,
                options |-> {}, minLength |-> 0, maxLength |-> 0]
CustomFields == {DietField, NickField, WaiverField}

\* the form documents the registrationForms collection may hold for the event:
\* a form with the select field in every activity and approval setting, and an
\* open form for each other field
RegistrationFormConfigs ==
    [id : {"form-1"}, customField : {DietField},
     requiresApproval : BOOLEAN, isActive : BOOLEAN]
    \cup
    [id : {"form-1"}, customField : CustomFields,
     requiresApproval : {FALSE}, isActive : {TRUE}]

(***************************************************************************)
(* Validation of submitted participants (lib/validations/registration.ts) *)
(***************************************************************************)
\* createCustomFieldValidation(field) applied to a value
createCustomFieldValidation(field, v) ==
    CASE field.type \in {"text", "textarea"} ->
            IF v.t = "undefined" THEN ~field.required
            ELSE /\ v.t = "string"
                 /\ (field.minLength # 0 => Len(v.s) >= field.minLength)
                 /\ (field.maxLength # 0 => Len(v.s) <= field.maxLength)
      [] field.type = "select" ->
            IF v.t = "undefined" THEN ~field.required
            ELSE /\ v.t = "string"
                 /\ (field.options # {} => v.s \in field.options)
      [] field.type = "checkbox" ->
            IF v.t = "undefined" THEN ~field.required
            ELSE /\ v.t = "boolean"
                 /\ (field.required => v.b = TRUE)
      [] OTHER ->
            IF v.t = "undefined" THEN ~field.required ELSE v.t = "string"

\* participantSchemaWithCustomFields, of whose fixed fields the model keeps
\* firstName: firstName is non-empty, and the custom
\* field value passes the validator built from the field definition
participantSchema(config, p) ==
    /\ Len(p.firstName) >= 1
    /\ createCustomFieldValidation(config.customField, p.customFieldValue)

\* every participant of a payload passes the schema of the form
ParticipantsValid(config, fd) ==
    /\ participantSchema(config, fd.primaryParticipant)
    /\ \A i \in 1..Len(fd.additionalParticipants) :
          participantSchema(config, fd.additionalParticipants[i])

(***************************************************************************)
(* Payloads (RegistrationFormData).                                        *)
(***************************************************************************)
\* a selection as the form fills it in: the price is the ticket type's price
TicketSelections ==
    {[ticketTypeId |-> t, quantity |-> q, price |-> price[t]] :
        t \in TicketIds, q \in 1..MaxQty}

\* a selection whose caller-supplied price is not the ticket type's price
TamperedSelections ==
    {[ticketTypeId |-> "t2", quantity |-> 1, price |-> 0],
     [ticketTypeId |-> "t1", quantity |-> 1, price |-> 9]}

\* the ticketSelections lists a client submits: one selection, or a selection
\* of t1 followed by any selection (of t2, or of t1 again)
SelectionLists ==
    {<<a>> : a \in TicketSelections}
    \cup
    {<<a, b>> : a \in {x \in TicketSelections : x.ticketTypeId = "t1"},
                b \in TicketSelections}

Ann == [firstName |-> "Ann", customFieldValue |-> Str("veg")]
Bob == [firstName |-> "Bob", customFieldValue |-> Bool(TRUE)]
Nobody == [firstName |-> "", customFieldValue |-> NoValue]
Participants == {Ann, Bob, Nobody}

\* the payloads a client submits: any selection list for the registrant Ann,
\* the other participant combinations for one fixed selection, and the
\* selections with a price of the caller's own
RegistrationFormDatas ==
    [primaryParticipant : {Ann}, additionalParticipants : {<<>>},
     ticketSelections : SelectionLists]
    \cup
    [primaryParticipant : Participants,
     additionalParticipants : {<<>>, <<Nobody>>},
     ticketSelections :
         {<<[ticketTypeId |-> "t2", quantity |-> 1, price |-> price["t2"]]>>}]
    \cup
    [primaryParticipant : {Ann}, additionalParticipants : {<<>>},
     ticketSelections : {<<a>> : a \in TamperedSelections}]

NoFormData == [primaryParticipant |-> Nobody, additionalParticipants |-> <<>>,
               ticketSelections |-> <<>>]

(***************************************************************************)
(* State.                                                                  *)
(***************************************************************************)
VARIABLES
    registrationForms,  \* store: the registrationForms documents of the event
    availableQuantity,  \* store: TicketType.availableQuantity per ticket type
    registrations,      \* store: the registrations collection, in addDoc order
    formConfig,         \* hook: query data ['registrationForm', eventId]
    ticketTypes,        \* hook: query data ['ticketTypes', eventId]
    pc,                 \* hook: the await the client's mutationFn stands at
    formData,           \* hook: the payload of the client's latest submit
    participantId,      \* hook: crypto.randomUUID() of the primary participant
    registrationId,     \* hook: the id createRegistration returned
    selIdx,             \* hook: position of the availability loop
    newAvailableQuantity, \* service: value computed between getDoc and updateDoc
    error,              \* hook: the error the submit threw
    confirmationCode,   \* hook: registrationData.confirmationCode of the submit
    call,               \* service: arguments of a call made outside a submit
    now,                \* the time new Date() reads
    registrationSummary, \* hook: query data ['registrationSummary', eventId]
    lastUpdate,         \* history: the latest updateRegistrationStatus call
    applied,            \* history: quantity the client's submit has deducted
    granted,            \* history: quantity of the reservations that succeeded
    submits             \* history: submissions started so far

vars == <<registrationForms, availableQuantity, registrations, formConfig,
          ticketTypes, pc, formData, participantId, registrationId, selIdx,
          newAvailableQuantity, error, confirmationCode, call, now,
          registrationSummary, lastUpdate, applied, granted, submits>>

\* the state of the status and summary operations next to the registrations
adminVars == <<now, registrationSummary, lastUpdate>>

\* the state of the clients' submissions next to the registrations
submitVars == <<registrationForms, availableQuantity, formConfig, ticketTypes,
                pc, formData, participantId, registrationId, selIdx,
                newAvailableQuantity, error, confirmationCode, call, applied,
                granted, submits>>

NoError == <<>>
NoCall == <<>>
NoId == 0
Zero == [t \in TicketIds |-> 0]

\* a mutationFn that is not running: never started, resolved or rejected
Settled(c) == pc[c] \in {"idle", "done", "failed"}

RECURSIVE Quantity(_, _)
\* the summed quantity a selection list asks of ticket type t
Quantity(sels, t) ==
    IF sels = <<>> THEN 0
    ELSE (IF sels[1].ticketTypeId = t THEN sels[1].quantity ELSE 0)
         + Quantity(Tail(sels), t)

(***************************************************************************)
(* Queries of the hook.                                                    *)
(***************************************************************************)
\* getFormConfigByEventId without its where('isActive', '==', true) clause
getFormConfigByEventIdAnyForm ==
    IF registrationForms # {}
    THEN <<CHOOSE f \in registrationForms : TRUE>>
    ELSE <<>>

\* registrationFormService.getFormConfigByEventId: the first active form of
\* the event as a list of at most one document (empty for null)
getFormConfigByEventId ==
    IF \E f \in registrationForms : f.isActive
    THEN <<CHOOSE f \in registrationForms : f.isActive>>
    ELSE <<>>

\* ticketTypeService.getEventTicketTypes: a snapshot of the event's ticket types
getEventTicketTypes ==
    {[id |-> t, name |-> name[t], price |-> price[t],
      availableQuantity |-> availableQuantity[t]] : t \in TicketIds}

\* ticketTypes?.find(t => t.id === id), as a set of at most one ticket type
find(tts, id) == {t \in tts : t.id = id}

\* useQuery(['registrationForm', eventId]) resolves
FetchFormConfig(c) ==
    /\ Settled(c)
    /\ formConfig' = [formConfig EXCEPT ![c] = getFormConfigByEventId]
    /\ UNCHANGED <<adminVars, confirmationCode, call,
                   registrationForms, availableQuantity, registrations,
                   ticketTypes, pc, formData, participantId, registrationId,
                   selIdx, newAvailableQuantity, error, applied, granted, submits>>

\* useQuery(['ticketTypes', eventId]) resolves
FetchTicketTypes(c) ==
    /\ Settled(c)
    /\ ticketTypes' = [ticketTypes EXCEPT ![c] = getEventTicketTypes]
    /\ UNCHANGED <<adminVars, confirmationCode, call,
                   registrationForms, availableQuantity, registrations,
                   formConfig, pc, formData, participantId, registrationId,
                   selIdx, newAvailableQuantity, error, applied, granted, submits>>

(***************************************************************************)
(* submitRegistrationMutation.mutationFn                                   *)
(***************************************************************************)
RECURSIVE ValidateTicketAvailability(_, _)
\* a mutationFn without the "Validate ticket availability" loop
ValidateNothing(tts, sels) == NoError

\* the loop "Validate ticket availability": the error of the first selection
\* that fails against the loaded ticket types, or NoError
ValidateTicketAvailability(tts, sels) ==
    IF sels = <<>> THEN NoError
    ELSE LET found == find(tts, sels[1].ticketTypeId) IN
         IF found = {}
         THEN <<"Ticket type not found", sels[1].ticketTypeId>>
         ELSE LET ticketType == CHOOSE t \in found : TRUE IN
              IF ticketType.availableQuantity < sels[1].quantity
              THEN <<"Insufficient tickets available for", ticketType.name>>
              ELSE ValidateTicketAvailability(tts, Tail(sels))

RECURSIVE totalAmountOfPayload(_, _)
RECURSIVE totalAmount(_, _)
\* the reduce with the price the payload carries in place of the loaded one
totalAmountOfPayload(tts, sels) ==
    IF sels = <<>> THEN 0
    ELSE sels[1].price * sels[1].quantity
         + totalAmountOfPayload(tts, Tail(sels))

\* "Calculate total amount": the reduce over the selections with the price of
\* the loaded ticket type
totalAmount(tts, sels) ==
    IF sels = <<>> THEN 0
    ELSE LET found == find(tts, sels[1].ticketTypeId) IN
         (IF found = {} THEN 0
          ELSE (CHOOSE t \in found : TRUE).price * sels[1].quantity)
         + totalAmount(tts, Tail(sels))

\* the status ternary with its branches swapped
InitialStatusSwapped(config) ==
    IF config.requiresApproval THEN "confirmed" ELSE "pending"

\* status of a new registration
InitialStatus(config) ==
    IF config.requiresApproval THEN "pending" ELSE "confirmed"

\* the paymentStatus ternary without its 'completed' branch
InitialPaymentStatusPending(amount) == "pending"

\* paymentStatus of a new registration
InitialPaymentStatus(amount) ==
    IF amount = 0 THEN "completed" ELSE "pending"

(***************************************************************************)
(* generateConfirmationCode.  A string is a sequence of characters.        *)
(***************************************************************************)
\* const chars = 'ABCDEFGHIJKLMNOPQRSTUVWXYZ0123456789'
chars ==
    <<"A", "B", "C", "D", "E", "F", "G", "H", "I", "J", "K", "L", "M",
      "N", "O", "P", "Q", "R", "S", "T", "U", "V", "W", "X", "Y", "Z",
      "0", "1", "2", "3", "4", "5", "6", "7", "8", "9">>

\* str.charAt(i): the character at the 0-based index, or the empty string
charAt(str, i) == IF i + 1 \in DOMAIN str THEN <<str[i + 1]>> ELSE <<>>

\* Math.round(Math.random() * k) for the sample n
MathRoundRandomTimes(n, k) ==
    (2 * n * k + RandomResolution) \div (2 * RandomResolution)

\* Math.floor(Math.random() * k) for the sample n
MathFloorRandomTimes(n, k) == (n * k) \div RandomResolution

RECURSIVE GenerateFrom(_, _, _)
\* the for loop of generateConfirmationCode from iteration i on, with the
\* result built so far and the samples Math.random() returns
GenerateFrom(i, result, randoms) ==
    IF i < CodeLength
    THEN GenerateFrom(i + 1,
                      result \o charAt(chars,
                                       MathFloorRandomTimes(randoms[i + 1],
                                                            Len(chars))),
                      randoms)
    ELSE result

\* generateConfirmationCode() when Math.random() returns the samples randoms
generateConfirmationCode(randoms) == GenerateFrom(0, <<>>, randoms)

\* the sample sequences Math.random() returns during one generation: they
\* start at the ends and the middle of [0, 1) and stay or advance by a step
RandomDraws ==
    {[i \in 1..CodeLength |-> (a + b * i) % RandomResolution] :
        a \in {0, 1, RandomResolution \div 2, RandomResolution - 1},
        b \in {0, 5}}

\* the samples of a generation that returns 'AAAAAAAA'
ZeroDraw == [i \in 1..CodeLength |-> 0]

NoCode == <<>>
NoTime == 0

\* "Create registration data" and the timestamps createRegistration adds: the
\* document stored for a payload
NewRegistration(event, config, tts, uuid, fd, code, time) ==
    LET amount == totalAmount(tts, fd.ticketSelections)
    IN  [eventId |-> event,
         formConfigId |-> config.id,
         primaryParticipant |->
             [id |-> uuid,
              firstName |-> fd.primaryParticipant.firstName,
              customFieldValue |-> fd.primaryParticipant.customFieldValue],
         additionalParticipants |-> fd.additionalParticipants,
         ticketSelections |-> fd.ticketSelections,
         totalAmount |-> amount,
         status |-> InitialStatus(config),
         paymentStatus |-> InitialPaymentStatus(amount),
         registrationDate |-> time,
         confirmationCode |-> code,
         approvedAt |-> NoTime,
         createdAt |-> time,
         updatedAt |-> time]

\* the document the client's submit in flight stores
RegistrationData(c) ==
    NewRegistration(EventId, formConfig[c][1], ticketTypes[c],
                    participantId[c], formData[c], confirmationCode[c], now)

\* the stages with the availability loop moved before createRegistration
StageOrderReserveFirst == <<"updateTicketAvailability", "createRegistration">>

\* the awaited stages of the mutationFn, in the order of the code
StageOrder == <<"createRegistration", "updateTicketAvailability">>

\* the await at which a stage starts
FirstAwait(stage) ==
    IF stage = "createRegistration" THEN "createRegistration" ELSE "getDoc"

\* the stage an await belongs to
StageOf(p) ==
    IF p = "createRegistration" THEN "createRegistration"
    ELSE "updateTicketAvailability"

\* the await that follows the last await of the stage the client is in
AfterStage(c) ==
    LET i == CHOOSE k \in 1..Len(StageOrder) : StageOrder[k] = StageOf(pc[c])
    IN  IF i < Len(StageOrder) THEN FirstAwait(StageOrder[i + 1]) ELSE "done"

\* the mutationFn rejects with an error; its locals go out of scope
Throw(c, e) ==
    /\ pc' = [pc EXCEPT ![c] = "failed"]
    /\ error' = [error EXCEPT ![c] = e]
    /\ selIdx' = [selIdx EXCEPT ![c] = 1]
    /\ newAvailableQuantity' = [newAvailableQuantity EXCEPT ![c] = 0]

\* submitRegistration(formData) up to its first await; randoms are the samples
\* Math.random() returns to generateConfirmationCode
Submit(c, fd, randoms) ==
    /\ Settled(c)
    /\ submits < MaxSubmits
    /\ submits' = submits + 1
    /\ formData' = [formData EXCEPT ![c] = fd]
    /\ participantId' = [participantId EXCEPT ![c] = submits + 1]
    /\ registrationId' = [registrationId EXCEPT ![c] = NoId]
    /\ applied' = [applied EXCEPT ![c] = Zero]
    /\ call' = [call EXCEPT ![c] = NoCall]
    /\ IF formConfig[c] = <<>>
       THEN /\ Throw(c, <<"Registration form configuration not found">>)
            /\ confirmationCode' = [confirmationCode EXCEPT ![c] = NoCode]
       ELSE LET e == ValidateTicketAvailability(ticketTypes[c], fd.ticketSelections)
            IN  IF e # NoError
                THEN /\ Throw(c, e)
                     /\ confirmationCode' =
                            [confirmationCode EXCEPT ![c] = NoCode]
                ELSE /\ pc' = [pc EXCEPT ![c] = FirstAwait(StageOrder[1])]
                     /\ error' = [error EXCEPT ![c] = NoError]
                     /\ confirmationCode' =
                            [confirmationCode EXCEPT
                                ![c] = generateConfirmationCode(randoms)]
                     /\ UNCHANGED <<selIdx, newAvailableQuantity>>
    /\ UNCHANGED <<adminVars,
                   registrationForms, availableQuantity, registrations,
                   formConfig, ticketTypes, granted>>

\* registrationService.createRegistration: addDoc resolves
CreateRegistration(c) ==
    /\ pc[c] = "createRegistration"
    /\ registrations' =
           Append(registrations,
                  [id |-> Len(registrations) + 1] @@ RegistrationData(c))
    /\ registrationId' = [registrationId EXCEPT ![c] = Len(registrations) + 1]
    /\ pc' = [pc EXCEPT ![c] = AfterStage(c)]
    /\ UNCHANGED <<adminVars, confirmationCode, call,
                   registrationForms, availableQuantity, formConfig,
                   ticketTypes, formData, participantId, selIdx,
                   newAvailableQuantity, error, applied, granted, submits>>

\* registrationService.createRegistration: addDoc rejects
CreateRegistrationFails(c) ==
    /\ pc[c] = "createRegistration"
    /\ Throw(c, <<"Failed to create registration">>)
    /\ UNCHANGED <<adminVars, confirmationCode, call,
                   registrationForms, availableQuantity, registrations,
                   formConfig, ticketTypes, formData, participantId,
                   registrationId, applied, granted, submits>>

\* the selection the availability loop stands at
Selection(c) == formData[c].ticketSelections[selIdx[c]]

\* the updateTicketAvailability call in flight is one of the submit's loop
InLoop(c) == call[c] = NoCall

\* ticketTypeId of the updateTicketAvailability call in flight
ticketTypeId(c) ==
    IF InLoop(c) THEN Selection(c).ticketTypeId ELSE call[c][1].ticketTypeId

\* a quantityChange of one ticket whatever the selection asks
quantityChangeOfOne(c) == 0 - 1

\* quantityChange of the updateTicketAvailability call in flight
quantityChange(c) ==
    IF InLoop(c) THEN 0 - Selection(c).quantity ELSE call[c][1].quantityChange

\* the availability check letting no call take the last ticket
InsufficientAtZero(new) == new <= 0

\* if (newAvailableQuantity < 0)
Insufficient(new) == new < 0

\* ticketTypeService.updateTicketAvailability called by a client outside a
\* submit, up to its first await
UpdateTicketAvailability(c, t, delta) ==
    /\ Settled(c)
    /\ submits < MaxSubmits
    /\ submits' = submits + 1
    /\ call' = [call EXCEPT ![c] = <<[ticketTypeId |-> t,
                                       quantityChange |-> delta]>>]
    /\ pc' = [pc EXCEPT ![c] = "getDoc"]
    /\ error' = [error EXCEPT ![c] = NoError]
    /\ applied' = [applied EXCEPT ![c] = Zero]
    /\ UNCHANGED <<adminVars, confirmationCode,
                   registrationForms, availableQuantity, registrations,
                   formConfig, ticketTypes, formData, participantId,
                   registrationId, selIdx, newAvailableQuantity, granted>>

\* ticketTypeService.updateTicketAvailability: getDoc resolves
GetDoc(c) ==
    /\ pc[c] = "getDoc"
    /\ IF ticketTypeId(c) \notin DOMAIN availableQuantity
       THEN Throw(c, <<"Ticket type not found">>)
       ELSE LET new == availableQuantity[ticketTypeId(c)] + quantityChange(c)
            IN  IF Insufficient(new)
                THEN Throw(c, <<"Insufficient ticket availability">>)
                ELSE /\ newAvailableQuantity' =
                            [newAvailableQuantity EXCEPT ![c] = new]
                     /\ pc' = [pc EXCEPT ![c] = "updateDoc"]
                     /\ UNCHANGED <<error, selIdx>>
    /\ UNCHANGED <<adminVars, confirmationCode, call,
                   registrationForms, availableQuantity, registrations,
                   formConfig, ticketTypes, formData, participantId,
                   registrationId, applied, granted, submits>>

\* ticketTypeService.updateTicketAvailability: updateDoc resolves
UpdateDoc(c) ==
    /\ pc[c] = "updateDoc"
    /\ LET t == ticketTypeId(c)
           q == 0 - quantityChange(c)
       IN  /\ availableQuantity' =
                  [availableQuantity EXCEPT ![t] = newAvailableQuantity[c]]
           /\ applied' = [applied EXCEPT ![c][t] = @ + q]
           /\ granted' = [granted EXCEPT ![t] = @ + q]
    /\ IF InLoop(c) /\ selIdx[c] < Len(formData[c].ticketSelections)
       THEN /\ selIdx' = [selIdx EXCEPT ![c] = @ + 1]
            /\ pc' = [pc EXCEPT ![c] = "getDoc"]
       ELSE /\ selIdx' = [selIdx EXCEPT ![c] = 1]
            /\ pc' = [pc EXCEPT ![c] = IF InLoop(c) THEN AfterStage(c)
                                       ELSE "done"]
    /\ newAvailableQuantity' = [newAvailableQuantity EXCEPT ![c] = 0]
    /\ UNCHANGED <<adminVars, confirmationCode, call,
                   registrationForms, registrations, formConfig, ticketTypes,
                   formData, participantId, registrationId, error, submits>>

\* ticketTypeService.updateTicketAvailability: getDoc or updateDoc rejects
UpdateTicketAvailabilityFails(c) ==
    /\ pc[c] \in {"getDoc", "updateDoc"}
    /\ Throw(c, <<"Failed to update ticket availability">>)
    /\ UNCHANGED <<adminVars, confirmationCode, call,
                   registrationForms, availableQuantity, registrations,
                   formConfig, ticketTypes, formData, participantId,
                   registrationId, applied, granted, submits>>

(***************************************************************************)
(* Administration: updateRegistrationStatus and getRegistrationSummary.    *)
(***************************************************************************)
Statuses == {"pending", "confirmed", "cancelled", "waitlisted"}
PaymentStatuses == {"pending", "completed", "failed", "refunded"}

\* an optional argument the caller left out
Undefined == "undefined"

NoSummary == <<>>
NoUpdate == <<>>

\* the ids updateRegistrationStatus is called with: the stored registrations'
\* and one that is not in the store
RegistrationIds == 1..(Len(registrations) + 1)

\* if (v) taken for every argument, given or not
TruthyAlways(v) == TRUE

\* if (v) for an optional string argument
Truthy(v) == v # Undefined

\* updateDoc resolving whether or not the document exists
DocExistsAlways(id) == TRUE

\* updateDoc resolves only for a document that exists
DocExists(id) == id \in DOMAIN registrations

\* the document after a write that replaces it by updateData, as setDoc does
Replaced(doc, status, paymentStatus) ==
    [doc EXCEPT
        !.status = status,
        !.updatedAt = now,
        !.paymentStatus = IF Truthy(paymentStatus) THEN paymentStatus ELSE @,
        !.approvedAt = IF status = "confirmed" THEN now ELSE @,
        !.ticketSelections = <<>>,
        !.totalAmount = 0]

\* the document after updateDoc(docRef, updateData) with the updateData that
\* updateRegistrationStatus builds
Updated(doc, status, paymentStatus) ==
    [doc EXCEPT
        !.status = status,
        !.updatedAt = now,
        !.paymentStatus = IF Truthy(paymentStatus) THEN paymentStatus ELSE @,
        !.approvedAt = IF status = "confirmed" THEN now ELSE @]

\* updateRegistrationStatusMutation: updateDoc resolves, onSuccess
UpdateRegistrationStatus(id, status, paymentStatus) ==
    /\ DocExists(id)
    /\ registrations' =
           [i \in DOMAIN registrations |->
               IF i = id THEN Updated(registrations[i], status, paymentStatus)
               ELSE registrations[i]]
    /\ registrationSummary' = NoSummary
    /\ lastUpdate' = <<[id |-> id, error |-> NoError]>>
    /\ UNCHANGED <<now, submitVars>>

\* updateRegistrationStatusMutation: updateDoc rejects, catch, onError
UpdateRegistrationStatusFails(id) ==
    /\ lastUpdate' =
           <<[id |-> id, error |-> <<"Failed to update registration status">>]>>
    /\ UNCHANGED <<now, registrations, registrationSummary, submitVars>>

\* the query without its where clause
getEventRegistrationsOfAll(eventId) == registrations

\* getEventRegistrations: the event's registrations (all stored at the same
\* registrationDate, so the order of the query is the store's)
getEventRegistrations(eventId) ==
    SelectSeq(registrations, LAMBDA r : r.eventId = eventId)

\* the revenue filter on the status in place of the paymentStatus
IsPaidByStatus(r) == r.status = "confirmed"

\* r => r.paymentStatus === 'completed'
IsPaid(r) == r.paymentStatus = "completed"

RECURSIVE reduceTotalAmount(_)
\* .reduce((sum, r) => sum + r.totalAmount, 0)
reduceTotalAmount(regs) ==
    IF regs = <<>> THEN 0
    ELSE regs[1].totalAmount + reduceTotalAmount(Tail(regs))

RECURSIVE ticketsSold(_, _)
\* "Calculate tickets sold by type": the entry of ticket type t after the
\* forEach over the registrations
ticketsSold(regs, t) ==
    IF regs = <<>> THEN 0
    ELSE Quantity(regs[1].ticketSelections, t) + ticketsSold(Tail(regs), t)

\* getRegistrationSummary(eventId)
getRegistrationSummary(eventId) ==
    LET regs == getEventRegistrations(eventId) IN
    [totalRegistrations |-> Len(regs),
     confirmedRegistrations |->
         Len(SelectSeq(regs, LAMBDA r : r.status = "confirmed")),
     pendingRegistrations |->
         Len(SelectSeq(regs, LAMBDA r : r.status = "pending")),
     totalRevenue |-> reduceTotalAmount(SelectSeq(regs, IsPaid)),
     ticketsSold |->
         [t \in UNION {{regs[i].ticketSelections[k].ticketTypeId :
                              k \in DOMAIN regs[i].ticketSelections} :
                          i \in DOMAIN regs} |->
             ticketsSold(regs, t)],
     registrationsByDate |->
         [d \in {regs[i].registrationDate : i \in DOMAIN regs} |->
             Len(SelectSeq(regs, LAMBDA r : r.registrationDate = d))]]

\* useQuery(['registrationSummary', eventId]) resolves
GetRegistrationSummary(eventId) ==
    /\ registrationSummary' =
           <<[eventId |-> eventId, data |-> getRegistrationSummary(eventId)]>>
    /\ UNCHANGED <<now, registrations, lastUpdate, submitVars>>

(***************************************************************************)
(* Specification.                                                          *)
(***************************************************************************)
\* the hook of every client after construction
InitHook ==
    /\ formConfig = [c \in Clients |-> <<>>]
    /\ ticketTypes = [c \in Clients |-> {}]
    /\ pc = [c \in Clients |-> "idle"]
    /\ formData = [c \in Clients |-> NoFormData]
    /\ participantId = [c \in Clients |-> NoId]
    /\ registrationId = [c \in Clients |-> NoId]
    /\ selIdx = [c \in Clients |-> 1]
    /\ newAvailableQuantity = [c \in Clients |-> 0]
    /\ error = [c \in Clients |-> NoError]
    /\ confirmationCode = [c \in Clients |-> NoCode]
    /\ call = [c \in Clients |-> NoCall]
    /\ applied = [c \in Clients |-> Zero]
    /\ granted = Zero
    /\ submits = 0

Init ==
    /\ registrationForms \in {{}} \cup {{f} : f \in RegistrationFormConfigs}
    /\ availableQuantity = maxQuantity
    /\ registrations = <<>>
    /\ now = 1
    /\ registrationSummary = NoSummary
    /\ lastUpdate = NoUpdate
    /\ InitHook

Next ==
    \E c \in Clients :
        \/ FetchFormConfig(c)
        \/ FetchTicketTypes(c)
        \/ \E fd \in RegistrationFormDatas : Submit(c, fd, ZeroDraw)
        \/ CreateRegistration(c)
        \/ CreateRegistrationFails(c)
        \/ GetDoc(c)
        \/ UpdateDoc(c)
        \/ UpdateTicketAvailabilityFails(c)

Spec == Init /\ [][Next]_vars

\* the event's form when the confirmation codes are studied: active, without
\* approval
OpenForm ==
    [id |-> "form-1", customField |-> DietField,
     requiresApproval |-> FALSE, isActive |-> TRUE]

\* the payloads submitted when the confirmation codes are studied
CodeFormDatas ==
    [primaryParticipant : {Ann}, additionalParticipants : {<<>>},
     ticketSelections :
         {<<[ticketTypeId |-> t, quantity |-> 1, price |-> price[t]]>> :
             t \in TicketIds}]

\* the submit flow with Math.random() free to return any of the sample
\* sequences
InitCode ==
    /\ Init
    /\ registrationForms = {OpenForm}

NextCode ==
    \E c \in Clients :
        \/ FetchFormConfig(c)
        \/ FetchTicketTypes(c)
        \/ \E fd \in CodeFormDatas, randoms \in RandomDraws :
              Submit(c, fd, randoms)
        \/ CreateRegistration(c)
        \/ CreateRegistrationFails(c)
        \/ GetDoc(c)
        \/ UpdateDoc(c)
        \/ UpdateTicketAvailabilityFails(c)

SpecCode == InitCode /\ [][NextCode]_vars

\* a stored Registration as a submit of the payload fd creates it, under a
\* form that does or does not require approval
StoredRegistration(id, event, requiresApproval, fd) ==
    [id |-> id]
    @@ NewRegistration(event,
                       [OpenForm EXCEPT !.requiresApproval = requiresApproval],
                       getEventTicketTypes, id, fd,
                       generateConfirmationCode(ZeroDraw), 1)

\* the administration of a store that holds up to MaxRegs registrations of
\* two events, created at time 1 and administered at time 2
InitStatus ==
    /\ registrationForms = {OpenForm}
    /\ availableQuantity = maxQuantity
    /\ \E n \in 0..MaxRegs :
          \E seed \in [1..n -> EventIds \X BOOLEAN \X CodeFormDatas] :
              registrations =
                  [i \in 1..n |->
                      StoredRegistration(i, seed[i][1], seed[i][2], seed[i][3])]
    /\ now = 2
    /\ registrationSummary = NoSummary
    /\ lastUpdate = NoUpdate
    /\ InitHook

NextStatus ==
    \/ \E id \in RegistrationIds, status \in Statuses,
          paymentStatus \in PaymentStatuses \cup {Undefined} :
          UpdateRegistrationStatus(id, status, paymentStatus)
    \/ \E id \in RegistrationIds : UpdateRegistrationStatusFails(id)
    \/ \E eventId \in EventIds : GetRegistrationSummary(eventId)

SpecStatus == InitStatus /\ [][NextStatus]_vars

\* the ticket type ids a caller passes: the event's and one that no document
\* has
CalledTicketIds == TicketIds \cup {"t9"}

\* the quantity changes a caller passes: reservations, up to one more than
\* the stock, and releases
QuantityChanges == (0 - (MaxQty + 1))..MaxQty

\* clients calling ticketTypeService.updateTicketAvailability concurrently
InitTicket ==
    /\ Init
    /\ registrationForms = {OpenForm}

NextTicket ==
    \E c \in Clients :
        \/ \E t \in CalledTicketIds, delta \in QuantityChanges :
              UpdateTicketAvailability(c, t, delta)
        \/ GetDoc(c)
        \/ UpdateDoc(c)
        \/ UpdateTicketAvailabilityFails(c)

SpecTicket == InitTicket /\ [][NextTicket]_vars

TypeOK ==
    /\ \A t \in TicketIds : availableQuantity[t] \in 0..MaxQty
    /\ Len(registrations) <= MaxSubmits


(***************************************************************************)
(* Vocabulary of the properties.                                           *)
(***************************************************************************)
\* the client has called submitRegistration at least once
Submitted(c) == participantId[c] # NoId

\* the client's latest submit has resolved or rejected
Completed(c) == Submitted(c) /\ pc[c] \in {"done", "failed"}

\* the store holds the Registration of the client's latest submit
Persisted(c) ==
    \E i \in 1..Len(registrations) :
        registrations[i].primaryParticipant.id = participantId[c]

\* the quantity the client's latest payload asks of every ticket type
Requested(c) ==
    [t \in TicketIds |-> Quantity(formData[c].ticketSelections, t)]

\* the registrationForms collection holds no active form for the event
NoActiveForm == \A f \in registrationForms : ~f.isActive

\* the errors that report a lack of tickets
InsufficientErrors ==
    {<<"Insufficient ticket availability">>}
    \cup {<<"Insufficient tickets available for", name[t]>> : t \in TicketIds}

RECURSIVE SoldQuantity(_, _)
\* the quantity of ticket type t held by the non-cancelled registrations
SoldQuantity(regs, t) ==
    IF regs = <<>> THEN 0
    ELSE (IF regs[1].status # "cancelled"
          THEN Quantity(regs[1].ticketSelections, t) ELSE 0)
         + SoldQuantity(Tail(regs), t)

(***************************************************************************)
(* Properties.                                                             *)
(***************************************************************************)
\* C1: capacity invariant.  For every ticket type the quantities of the
\* reservations (updateTicketAvailability with a negative change) that
\* reported success sum to at most maxQuantity, and availableQuantity is
\* never negative.
C1_CapacityInvariant ==
    \A t \in TicketIds :
        /\ granted[t] <= maxQuantity[t]
        /\ availableQuantity[t] >= 0

\* C2: all-or-nothing submission.  A completed submit has either persisted
\* its Registration and deducted every one of its selections, or persisted
\* nothing and deducted nothing.
C2_AllOrNothing ==
    \A c \in Clients :
        Completed(c) =>
            \/ Persisted(c) /\ applied[c] = Requested(c)
            \/ ~Persisted(c) /\ applied[c] = Zero

\* the two clients have each submitted quantity MaxQty of t1 once, with the
\* form and the ticket types loaded, and both submits have completed without
\* a store outage
ScenarioA ==
    /\ submits = 2
    /\ \A c \in Clients :
          /\ Completed(c)
          /\ formConfig[c] # <<>>
          /\ ticketTypes[c] # {}
          /\ formData[c].ticketSelections =
                 <<[ticketTypeId |-> "t1", quantity |-> MaxQty,
                    price |-> price["t1"]]>>
          /\ error[c] \notin {<<"Failed to create registration">>,
                              <<"Failed to update ticket availability">>}

\* C3: scenario A.  When two submits each ask for the whole stock of t1,
\* exactly one succeeds, the other fails for lack of tickets, one
\* Registration is persisted and availableQuantity of t1 ends at 0.
C3_ScenarioA ==
    ScenarioA =>
        /\ \E c \in Clients :
              /\ pc[c] = "done"
              /\ \A d \in Clients \ {c} :
                    pc[d] = "failed" /\ error[d] \in InsufficientErrors
        /\ Len(registrations) = 1
        /\ availableQuantity["t1"] = 0

\* C4: registration capacity invariant.  For every ticket type the
\* quantities held by the persisted non-cancelled registrations sum to at
\* most maxQuantity.
C4_RegistrationCapacity ==
    \A t \in TicketIds : SoldQuantity(registrations, t) <= maxQuantity[t]

\* the client's latest payload names no ticket type twice
DistinctTypes(c) ==
    \A i, j \in 1..Len(formData[c].ticketSelections) :
        i # j => formData[c].ticketSelections[i].ticketTypeId
                    # formData[c].ticketSelections[j].ticketTypeId

\* C5: rollback on insufficient inventory.  A submit over several ticket
\* types that failed for lack of tickets has released every reservation it
\* was granted: it leaves no deduction of its own behind.
C5_RollbackOnInsufficient ==
    \A c \in Clients :
        (/\ Completed(c)
         /\ DistinctTypes(c)
         /\ pc[c] = "failed"
         /\ error[c] \in InsufficientErrors)
            => applied[c] = Zero

\* C6: scenario D.  A submit whose createRegistration failed has deducted
\* nothing from any availableQuantity and has no Registration in the store.
C6_PersistenceFailure ==
    \A c \in Clients :
        (pc[c] = "failed" /\ error[c] = <<"Failed to create registration">>)
            => /\ applied[c] = Zero
               /\ ~Persisted(c)
               /\ registrationId[c] = NoId

\* a submit with ticket selections was rejected by a failing createRegistration
C6_Witness ==
    \E c \in Clients :
        /\ pc[c] = "failed"
        /\ error[c] = <<"Failed to create registration">>
        /\ Requested(c) # Zero
        /\ availableQuantity = maxQuantity

\* C7: eventual commit or rollback.  A submit that has deducted from an
\* availableQuantity and has run to its end has either committed (its
\* Registration is persisted and every selection is deducted) or rolled back
\* (none of its deductions remains); it does not end partially applied.
C7_CommitOrRollback ==
    \A c \in Clients :
        pc[c] \in {"done", "failed"} =>
            \/ applied[c] = Zero
            \/ Persisted(c) /\ applied[c] = Requested(c)

\* C8: validation before side effects.  A submit that has written to the
\* store (a Registration or a deduction) carries participants that all pass
\* the validators of the form's field definitions.
C8_ValidationFirst ==
    \A c \in Clients :
        (Persisted(c) \/ applied[c] # Zero)
            => ParticipantsValid(formConfig[c][1], formData[c])

\* C9: form-config gate.  While the event has no active form (none, or one
\* with isActive false), every submit fails with 'Registration form
\* configuration not found', no client reaches createRegistration or
\* updateTicketAvailability, and the store is as it was.
C9_FormConfigGate ==
    NoActiveForm =>
        /\ \A c \in Clients :
              /\ pc[c] \in {"idle", "failed"}
              /\ Submitted(c) =>
                    /\ pc[c] = "failed"
                    /\ error[c] = <<"Registration form configuration not found">>
        /\ registrations = <<>>
        /\ availableQuantity = maxQuantity

\* a client that had fetched the queries submitted to an event whose form is
\* inactive and was rejected
C9_Witness ==
    /\ \E f \in registrationForms : ~f.isActive
    /\ \E c \in Clients :
          /\ ticketTypes[c] # {}
          /\ pc[c] = "failed"
          /\ error[c] = <<"Registration form configuration not found">>
          /\ Requested(c) # Zero

\* C10: initial status.  Every step that adds a Registration to the store
\* adds it with status 'pending' if the event's active form requires
\* approval and 'confirmed' otherwise, whatever its totalAmount.
C10_InitialStatus ==
    [][Len(registrations') > Len(registrations) =>
          LET r == registrations'[Len(registrations')] IN
          /\ r.status \in {"pending", "confirmed"}
          /\ \A f \in registrationForms :
                f.isActive => (r.status = "pending" <=> f.requiresApproval)]_vars

\* the store holds a free and a paid Registration of a form that requires
\* approval, both pending
C10_Witness ==
    /\ \E f \in registrationForms : f.isActive /\ f.requiresApproval
    /\ \E i, j \in 1..Len(registrations) :
          /\ registrations[i].totalAmount = 0
          /\ registrations[i].status = "pending"
          /\ registrations[j].totalAmount > 0
          /\ registrations[j].status = "pending"

\* the amount of a selection list at the prices of the event's ticket types
CatalogueAmount(sels) ==
    price["t1"] * Quantity(sels, "t1") + price["t2"] * Quantity(sels, "t2")

C12_TotalAmount ==
    [][Len(registrations') > Len(registrations) =>
          LET r == registrations'[Len(registrations')] IN
          r.totalAmount = CatalogueAmount(r.ticketSelections)]_vars

\* the store holds a Registration whose selection carries a price lower than
\* the ticket type's and one whose selection carries a higher price
C12_Witness ==
    \E i, j \in 1..Len(registrations) :
        /\ \E k \in DOMAIN registrations[i].ticketSelections :
              LET sel == registrations[i].ticketSelections[k] IN
              sel.price < price[sel.ticketTypeId]
        /\ \E k \in DOMAIN registrations[j].ticketSelections :
              LET sel == registrations[j].ticketSelections[k] IN
              sel.price > price[sel.ticketTypeId]
        /\ registrations[i].totalAmount > 0
        /\ registrations[j].totalAmount = 0

\* the status transitions of the state machine
StatusTransitions ==
    {<<"pending", "confirmed">>, <<"pending", "cancelled">>,
     <<"pending", "waitlisted">>, <<"waitlisted", "confirmed">>,
     <<"waitlisted", "cancelled">>, <<"confirmed", "cancelled">>}

\* the paymentStatus transitions of the state machine
PaymentStatusTransitions ==
    {<<"pending", "completed">>, <<"pending", "failed">>,
     <<"completed", "refunded">>}

\* C13: status state machine.  Every step that changes the stored status of
\* a registration changes it along pending -> confirmed, cancelled or
\* waitlisted, waitlisted -> confirmed or cancelled, confirmed -> cancelled;
\* a cancelled registration keeps its status.
C13_StatusStateMachine ==
    [][\A i \in DOMAIN registrations :
          registrations'[i].status # registrations[i].status =>
              <<registrations[i].status, registrations'[i].status>>
                  \in StatusTransitions]_vars

\* C14: paymentStatus state machine.  Every step that changes the stored
\* paymentStatus of a registration changes it along pending -> completed or
\* failed, completed -> refunded; failed and refunded are never left.
C14_PaymentStatusStateMachine ==
    [][\A i \in DOMAIN registrations :
          registrations'[i].paymentStatus # registrations[i].paymentStatus =>
              <<registrations[i].paymentStatus, registrations'[i].paymentStatus>>
                  \in PaymentStatusTransitions]_vars

\* C15: Scenario E.  A resolved updateRegistrationStatus(id, 'confirmed')
\* leaves the registration with an approvedAt; a resolved call without a
\* paymentStatus argument sets the requested status, 'cancelled' after
\* 'confirmed' included, and leaves the stored paymentStatus as it was.
C15_ScenarioE ==
    [][\A id \in DOMAIN registrations :
          /\ \A paymentStatus \in PaymentStatuses \cup {Undefined} :
                UpdateRegistrationStatus(id, "confirmed", paymentStatus) =>
                    registrations'[id].approvedAt # NoTime
          /\ \A status \in Statuses :
                UpdateRegistrationStatus(id, status, Undefined) =>
                    /\ registrations'[id].status = status
                    /\ registrations'[id].paymentStatus
                           = registrations[id].paymentStatus]_vars

\* a paid registration was confirmed and then cancelled: it is cancelled,
\* carries an approvedAt and is still pending payment
C15_Witness ==
    /\ lastUpdate # NoUpdate
    /\ lastUpdate[1].id \in DOMAIN registrations
    /\ lastUpdate[1].error = NoError
    /\ LET r == registrations[lastUpdate[1].id] IN
       /\ r.status = "cancelled"
       /\ r.approvedAt # NoTime
       /\ r.totalAmount > 0
       /\ r.paymentStatus = "pending"

\* C16: missing registration.  A call of updateRegistrationStatus with an id
\* that is not in the store ends with an error and leaves every stored
\* registration, and their number, as they were.
C16_MissingRegistration ==
    [][(/\ lastUpdate' # lastUpdate
        /\ lastUpdate'[1].id \notin DOMAIN registrations)
          => /\ lastUpdate'[1].error # NoError
             /\ registrations' = registrations]_vars

\* the latest call named an id that is not in a store of two registrations
\* and was rejected; an earlier call had updated a stored registration
C16_Witness ==
    /\ Len(registrations) = 2
    /\ lastUpdate # NoUpdate
    /\ lastUpdate[1].id \notin DOMAIN registrations
    /\ lastUpdate[1].error = <<"Failed to update registration status">>
    /\ \E i \in DOMAIN registrations :
          registrations[i].updatedAt > registrations[i].createdAt

\* the number of the event's stored registrations with the status
StatusCount(eventId, status) ==
    Cardinality({i \in DOMAIN registrations :
                    /\ registrations[i].eventId = eventId
                    /\ registrations[i].status = status})

\* C19 as stated: the summary carries a count for each of the four statuses
\* and the four counts add up to totalRegistrations.
C19_SummaryPartition ==
    registrationSummary # NoSummary =>
        LET summary == registrationSummary[1].data IN
        /\ {"cancelledRegistrations", "waitlistedRegistrations"}
               \subseteq DOMAIN summary
        /\ summary.confirmedRegistrations + summary.pendingRegistrations
               + summary.cancelledRegistrations
               + summary.waitlistedRegistrations
           = summary.totalRegistrations

\* C19: summary status counts.  confirmedRegistrations and
\* pendingRegistrations of a summary are the numbers of the event's
\* registrations with status 'confirmed' and 'pending'; the summary carries
\* no count of the cancelled and waitlisted ones, and the two counts it
\* carries plus the numbers of the event's cancelled and waitlisted
\* registrations add up to totalRegistrations.
C19_SummaryCounts ==
    registrationSummary # NoSummary =>
        LET eventId == registrationSummary[1].eventId
            summary == registrationSummary[1].data
        IN  /\ summary.confirmedRegistrations = StatusCount(eventId, "confirmed")
            /\ summary.pendingRegistrations = StatusCount(eventId, "pending")
            /\ DOMAIN summary \cap
                   {"cancelledRegistrations", "waitlistedRegistrations"} = {}
            /\ summary.confirmedRegistrations + summary.pendingRegistrations
                   + StatusCount(eventId, "cancelled")
                   + StatusCount(eventId, "waitlisted")
               = summary.totalRegistrations

\* the summary of an event whose only registration is waitlisted, while the
\* store holds a registration of the other event: no count of the summary
\* covers the event's registration
C19_Witness ==
    /\ registrationSummary # NoSummary
    /\ registrationSummary[1].data.totalRegistrations = 1
    /\ registrationSummary[1].data.confirmedRegistrations = 0
    /\ registrationSummary[1].data.pendingRegistrations = 0
    /\ StatusCount(registrationSummary[1].eventId, "waitlisted") = 1
    /\ Len(registrations) = 2

RECURSIVE CompletedAmount(_, _)
\* the totalAmount of the first n stored registrations that belong to the
\* event and have paymentStatus 'completed'
CompletedAmount(n, eventId) ==
    IF n = 0 THEN 0
    ELSE (IF /\ registrations[n].eventId = eventId
             /\ registrations[n].paymentStatus = "completed"
          THEN registrations[n].totalAmount ELSE 0)
         + CompletedAmount(n - 1, eventId)

\* C20: summary revenue.  totalRevenue of a summary is the sum of totalAmount
\* over the event's registrations with paymentStatus 'completed';
\* registrations with another paymentStatus contribute 0.
C20_SummaryRevenue ==
    registrationSummary # NoSummary =>
        registrationSummary[1].data.totalRevenue
            = CompletedAmount(Len(registrations),
                              registrationSummary[1].eventId)

\* the summary of an event with two paid registrations, one completed while
\* pending approval, the other confirmed and refunded: the revenue is the
\* first one's amount
C20_Witness ==
    /\ registrationSummary # NoSummary
    /\ registrationSummary[1].data.totalRegistrations = 2
    /\ registrationSummary[1].data.totalRevenue > 0
    /\ \E i, j \in DOMAIN registrations :
          /\ registrations[i].totalAmount > 0
          /\ registrations[i].paymentStatus = "completed"
          /\ registrations[i].status = "pending"
          /\ registrations[j].totalAmount > 0
          /\ registrations[j].paymentStatus = "refunded"
          /\ registrations[j].status = "confirmed"
          /\ registrationSummary[1].data.totalRevenue
                 = registrations[i].totalAmount

\* the characters of a confirmation code: upper-case letters and digits
CodeAlphabet ==
    {"A", "B", "C", "D", "E", "F", "G", "H", "I", "J", "K", "L", "M",
     "N", "O", "P", "Q", "R", "S", "T", "U", "V", "W", "X", "Y", "Z"}
    \cup {"0", "1", "2", "3", "4", "5", "6", "7", "8", "9"}

\* C17: confirmation code format.  The confirmationCode of every persisted
\* Registration is exactly 8 characters, each an upper-case letter or a
\* digit, and the code a resolved submit returns to its caller is the code
\* persisted on its Registration.
C17_ConfirmationCodeFormat ==
    /\ \A i \in 1..Len(registrations) :
          LET code == registrations[i].confirmationCode IN
          /\ Len(code) = 8
          /\ \A k \in 1..Len(code) : code[k] \in CodeAlphabet
    /\ \A c \in Clients :
          Submitted(c) /\ pc[c] = "done" =>
              registrations[registrationId[c]].confirmationCode
                  = confirmationCode[c]

\* both clients' submits have resolved with different codes, one of them
\* drawn from the top of the sample range and holding a digit
C17_Witness ==
    /\ \A c \in Clients : Submitted(c) /\ pc[c] = "done"
    /\ confirmationCode["c1"] # confirmationCode["c2"]
    /\ confirmationCode["c1"][1] = "9"
    /\ Len(registrations) = 2

\* C18: confirmation code uniqueness.  No two persisted Registrations share
\* a confirmationCode, whatever the generator returns.
C18_UniqueConfirmationCode ==
    \A i, j \in 1..Len(registrations) :
        i # j =>
            registrations[i].confirmationCode # registrations[j].confirmationCode

\* C21: summary ticketsSold.  For every ticket type, ticketsSold of a summary
\* is the sum of quantity over the selections of the type in the event's
\* registrations that are not cancelled (no entry standing for 0).
C21_TicketsSold ==
    registrationSummary # NoSummary =>
        LET eventId == registrationSummary[1].eventId
            sold == registrationSummary[1].data.ticketsSold
        IN  \A t \in TicketIds :
                (IF t \in DOMAIN sold THEN sold[t] ELSE 0)
                    = SoldQuantity(SelectSeq(registrations,
                                             LAMBDA r : r.eventId = eventId), t)

\* C25: frame of updateRegistrationStatus.  A step of the administration
\* changes at most one registration, and of it only status, paymentStatus,
\* approvedAt and updatedAt; approvedAt changes only when the new status is
\* 'confirmed' and paymentStatus is kept by a call that gives none; no
\* availableQuantity changes and no registration is added or removed.
C25_UpdateFrame ==
    [][/\ availableQuantity' = availableQuantity
       /\ DOMAIN registrations' = DOMAIN registrations
       /\ \A i, j \in DOMAIN registrations :
             (/\ registrations'[i] # registrations[i]
              /\ registrations'[j] # registrations[j]) => i = j
       /\ \A i \in DOMAIN registrations :
             /\ registrations'[i] =
                    [registrations[i] EXCEPT
                        !.status = registrations'[i].status,
                        !.paymentStatus = registrations'[i].paymentStatus,
                        !.approvedAt = registrations'[i].approvedAt,
                        !.updatedAt = registrations'[i].updatedAt]
             /\ registrations'[i].approvedAt # registrations[i].approvedAt
                    => registrations'[i].status = "confirmed"
             /\ (/\ lastUpdate' # NoUpdate
                 /\ lastUpdate'[1].id = i
                 /\ UpdateRegistrationStatus(i, registrations'[i].status,
                                             Undefined))
                    => registrations'[i].paymentStatus
                           = registrations[i].paymentStatus]_vars

\* the latest call updated one of two paid registrations, which keeps its
\* selections, amount and code and was never approved; the other one is as
\* created
C25_Witness ==
    /\ Len(registrations) = 2
    /\ lastUpdate # NoUpdate
    /\ lastUpdate[1].error = NoError
    /\ \E i, j \in DOMAIN registrations :
          /\ i = lastUpdate[1].id
          /\ registrations[i].status = "waitlisted"
          /\ registrations[i].paymentStatus = "failed"
          /\ registrations[i].approvedAt = NoTime
          /\ registrations[i].updatedAt > registrations[i].createdAt
          /\ registrations[i].totalAmount > 0
          /\ registrations[i].ticketSelections # <<>>
          /\ j # i
          /\ registrations[j].updatedAt = registrations[j].createdAt

\* every updateTicketAvailability call made so far outside a submit was a
\* reservation of a ticket type of the event
OnlyReservations ==
    \A c \in Clients :
        call[c] # NoCall =>
            /\ call[c][1].quantityChange < 0
            /\ call[c][1].ticketTypeId \in TicketIds

\* C23: no lost update.  When no reservation is in flight, every ticket
\* type's availableQuantity is its initial value minus the quantities of the
\* reservations that reported success, however their reads and writes were
\* interleaved.
C23_NoLostUpdate ==
    (OnlyReservations /\ \A c \in Clients : Settled(c)) =>
        \A t \in TicketIds :
            availableQuantity[t] = maxQuantity[t] - granted[t]

\* C26: upper bound on inventory.  Every ticket type's availableQuantity is
\* between 0 and its maxQuantity in every state, releases included.
C26_InventoryBounds ==
    \A t \in TicketIds :
        /\ 0 <= availableQuantity[t]
        /\ availableQuantity[t] <= maxQuantity[t]

\* C28: error outcomes of updateTicketAvailability.  When getDoc resolves,
\* a call on a ticket type without a document fails with 'Ticket type not
\* found', a call whose result would be negative fails with 'Insufficient
\* ticket availability', both without a write, and any other call goes on
\* to updateDoc, which writes the availableQuantity read plus the
\* quantityChange to the ticket type of the call and to no other.
C28_UpdateTicketAvailabilityOutcomes ==
    [][\A c \in Clients :
          /\ GetDoc(c) =>
                /\ availableQuantity' = availableQuantity
                /\ IF ticketTypeId(c) \notin TicketIds
                   THEN /\ pc'[c] = "failed"
                        /\ error'[c] = <<"Ticket type not found">>
                   ELSE IF availableQuantity[ticketTypeId(c)]
                              + quantityChange(c) < 0
                   THEN /\ pc'[c] = "failed"
                        /\ error'[c] = <<"Insufficient ticket availability">>
                   ELSE /\ pc'[c] = "updateDoc"
                        /\ newAvailableQuantity'[c] =
                               availableQuantity[ticketTypeId(c)]
                                   + quantityChange(c)
          /\ UpdateDoc(c) =>
                /\ availableQuantity'[ticketTypeId(c)] = newAvailableQuantity[c]
                /\ \A t \in TicketIds \ {ticketTypeId(c)} :
                      availableQuantity'[t] = availableQuantity[t]
                /\ pc'[c] # "failed"]_vars

\* one call has failed for a ticket type without a document, the other for
\* asking one ticket more than the stock, and the stock is untouched
C28_Witness ==
    /\ pc["c1"] = "failed"
    /\ error["c1"] = <<"Ticket type not found">>
    /\ call["c1"] # NoCall
    /\ call["c1"][1].ticketTypeId \notin TicketIds
    /\ pc["c2"] = "failed"
    /\ error["c2"] = <<"Insufficient ticket availability">>
    /\ call["c2"] # NoCall
    /\ call["c2"][1].quantityChange = 0 - (MaxQty + 1)
    /\ availableQuantity = maxQuantity

\* no other client has submitted: the client's submits run alone
Alone(c) == \A d \in Clients \ {c} : ~Submitted(d)

\* C22: exact decrement on success.  While a client submits alone, every
\* availableQuantity is, between its submits, the initial value minus the
\* quantities deducted so far, and a submit that resolved has deducted of
\* every ticket type exactly the quantity selected: the selected types are
\* down by the selected quantity and the other types are unchanged.
C22_ExactDecrement ==
    \A c \in Clients :
        (Alone(c) /\ Settled(c)) =>
            /\ \A t \in TicketIds :
                  availableQuantity[t] = maxQuantity[t] - granted[t]
            /\ (Submitted(c) /\ pc[c] = "done") =>
                  /\ applied[c] = Requested(c)
                  /\ \A t \in TicketIds :
                        availableQuantity[t] =
                            (maxQuantity[t] - (granted[t] - applied[c][t]))
                                - Quantity(formData[c].ticketSelections, t)

\* a client's only submit, of the whole stock of t1, has resolved alone: t1
\* is down to 0 and t2 is untouched
C22_Witness ==
    \E c \in Clients :
        /\ Alone(c)
        /\ submits = 1
        /\ pc[c] = "done"
        /\ Requested(c) = [t \in TicketIds |-> IF t = "t1" THEN MaxQty ELSE 0]
        /\ availableQuantity["t1"] = maxQuantity["t1"] - MaxQty
        /\ availableQuantity["t2"] = maxQuantity["t2"]

\* C24: step ordering of submit.  A Registration is in the store only when
\* every reservation of its submit has succeeded, and a submit that has
\* resolved has its Registration in the store.
C24_StepOrdering ==
    \A c \in Clients :
        /\ (Submitted(c) /\ Persisted(c)) => applied[c] = Requested(c)
        /\ (Submitted(c) /\ pc[c] = "done") => Persisted(c)

\* C27: duplicate ticket-type selections.  A submit, the only one so far,
\* whose selections name a ticket type twice and ask in sum more of it than
\* is available persists no Registration and changes no availableQuantity.
C27_DuplicateSelections ==
    \A c \in Clients :
        (/\ submits = 1
         /\ Submitted(c)
         /\ ~DistinctTypes(c)
         /\ \E t \in TicketIds : Requested(c)[t] > maxQuantity[t])
            => /\ ~Persisted(c)
               /\ availableQuantity = maxQuantity

\* the ticket-type set the client has loaded has no ticket type for the
\* selection, or one with fewer tickets than the selection asks
Unavailable(tts, sel) ==
    ~ \E tt \in tts : /\ tt.id = sel.ticketTypeId
                       /\ tt.availableQuantity >= sel.quantity

\* the error of the pre-check for a selection that is unavailable
PreCheckError(tts, sel) ==
    IF \E tt \in tts : tt.id = sel.ticketTypeId
    THEN <<"Insufficient tickets available for", name[sel.ticketTypeId]>>
    ELSE <<"Ticket type not found", sel.ticketTypeId>>

\* C29: availability pre-check of submit.  A submit whose payload holds a
\* selection of a ticket type absent from the loaded set, or of more than
\* its loaded availableQuantity, fails at once, before createRegistration or
\* updateTicketAvailability: no Registration is added and no
\* availableQuantity changes; with the form configuration loaded the error
\* is 'Ticket type not found: <id>' or 'Insufficient tickets available for
\* <name>' of such a selection.
C29_AvailabilityPreCheck ==
    [][\A c \in Clients :
          (/\ participantId'[c] # participantId[c]
           /\ \E k \in DOMAIN formData'[c].ticketSelections :
                 Unavailable(ticketTypes[c], formData'[c].ticketSelections[k]))
             => /\ pc'[c] = "failed"
                /\ registrations' = registrations
                /\ availableQuantity' = availableQuantity
                /\ applied'[c] = Zero
                /\ formConfig[c] # <<>> =>
                      \E k \in DOMAIN formData'[c].ticketSelections :
                          LET sel == formData'[c].ticketSelections[k] IN
                          /\ Unavailable(ticketTypes[c], sel)
                          /\ error'[c] = PreCheckError(ticketTypes[c], sel)]_vars

\* after a submit that took the whole stock of t1, a client that had loaded
\* the remaining stock was refused one more t1 by the pre-check; the store
\* holds the one Registration and the stock is as the first submit left it
C29_Witness ==
    \E c \in Clients :
        /\ pc[c] = "failed"
        /\ error[c] = <<"Insufficient tickets available for", name["t1"]>>
        /\ ~Persisted(c)
        /\ applied[c] = Zero
        /\ Len(registrations) = 1
        /\ availableQuantity["t1"] = 0
        /\ granted["t1"] = maxQuantity["t1"]

RECURSIVE PersistedQuantity(_, _)
\* the quantity of ticket type t in the selections of the first n stored
\* registrations
PersistedQuantity(n, t) ==
    IF n = 0 THEN 0
    ELSE Quantity(registrations[n].ticketSelections, t)
         + PersistedQuantity(n - 1, t)

\* C30: inventory conservation.  When no submit is in flight, every ticket
\* type's availableQuantity plus the quantity of it in the persisted
\* registrations is its initial availableQuantity.
C30_InventoryConservation ==
    (\A c \in Clients : Settled(c)) =>
        \A t \in TicketIds :
            availableQuantity[t] + PersistedQuantity(Len(registrations), t)
                = maxQuantity[t]

====
